---- MODULE Spec2Model ----
(***************************************************************************)
(* Model of the gene-sim WASM simulation core (src/wasm/src):              *)
(*   SimCore (lib.rs), SpatialHash (spatial_hash.rs),                      *)
(*   BiomeCollisionMap and apply_collision_constraints (collision.rs),     *)
(*   process_entity_movement (movement.rs), integrate_batch (physics.rs).  *)
(* f32 quantities are modelled as integers (world units); `as usize` is    *)
(* the saturating, truncating cast of Rust.                                *)
(***************************************************************************)
EXTENDS Integers, Sequences, FiniteSets, TLC

(* ----------------------------- bounds ---------------------------------- *)
\* SimCore.capacity: number of entity slots of the arrays
capacity == 3
\* largest number of entities a host loads in the specifications of the index,
\* the map and the integrator
MaxLoad == 2
\* largest `limit` handed to for_each_neighbor_limited
MaxLimit == 2

(* ------------------------- program constants --------------------------- *)
GENES_PER_ENTITY == 9
MAX_NEIGHBORS == 20

\* BiomeCollisionMap::new(data, grid_width, grid_height, cell_size, world_width, world_height)
map_cell_size == 10
\* the cap of the lookup cache: (grid_width * grid_height).min(10000)
CACHE_MAX == 10000
\* 0.15, the reference metabolism, in the unit of the metabolism gene (0.01)
REF_METABOLISM == 15
\* the escape speed, 30.0
ESCAPE_SPEED == 30

\* width, height, cell_size: the world_width, world_height and cell_size of
\* SimCore::new, as SpatialHash stores them; they never change after Init
VARIABLES pos_x, pos_y, vel_x, vel_y, energy, alive, tribe_id, genes, count,
          width, height, cell_size, buckets, next,
          traversability, grid_width, grid_height, cache, cache_generation,
          op, out, hist

vars == <<pos_x, pos_y, vel_x, vel_y, energy, alive, tribe_id, genes, count,
          width, height, cell_size, buckets, next,
          traversability, grid_width, grid_height, cache, cache_generation, op, out, hist>>
worldVars == <<width, height, cell_size>>
simVars == <<pos_x, pos_y, vel_x, vel_y, energy, alive, tribe_id, genes, count, worldVars>>
hashVars == <<buckets, next>>
mapVars == <<traversability, grid_width, grid_height, cache, cache_generation>>

Entities == 0 .. (capacity - 1)

Min(a, b) == IF a < b THEN a ELSE b
Max(a, b) == IF a > b THEN a ELSE b
Abs(a) == IF a < 0 THEN -a ELSE a

\* `let x = v; F(x)`: v is evaluated once and F applied to its value
Bind(v, F(_)) == CHOOSE r \in {F(x) : x \in {v}} : TRUE

\* (num / den) as usize for den > 0: truncation, negative values saturate to 0
CastUsize(num, den) == IF num < 0 THEN 0 ELSE num \div den

\* f32::ceil(num / den) as usize
CeilUsize(num, den) == IF num <= 0 THEN 0 ELSE (num + den - 1) \div den

cols == Max(CeilUsize(width, cell_size), 1)
rows == Max(CeilUsize(height, cell_size), 1)
Buckets == 0 .. (cols * rows - 1)

\* the last operation and its arguments (history, not program state)
NoOp == [name |-> "new", x |-> 0, y |-> 0, radius |-> 0, limit |-> 0,
         accept |-> {}, start |-> 0, end |-> 0, dt |-> 0, flag |-> FALSE]
\* the last operation's return value
NoOut == [results |-> <<>>, ret |-> 0, aborted |-> FALSE, val |-> FALSE, src |-> -1]
\* the pass that ran right before the last pass, and the arrays before it
NoPrev == [name |-> "none", start |-> 0, end |-> 0, dt |-> 0, aborted |-> FALSE,
           pos_x |-> <<>>, pos_y |-> <<>>, vel_x |-> <<>>, vel_y |-> <<>>]
\* history: the arrays before the last pass, the cells whose cached flag the
\* last grid replacement made stale, the number of integration and collision
\* passes run, how often each entity was steered, the velocities before the
\* first steering batch, whether every steering batch ran on a fresh index
\* and to its end
NoHist == [pos_x |-> <<>>, pos_y |-> <<>>, vel_x |-> <<>>, vel_y |-> <<>>,
           stale |-> {}, passes |-> 0, collisions |-> 0, prev |-> NoPrev,
           steered |-> [i \in Entities |-> 0],
           phase_vel_x |-> <<>>, phase_vel_y |-> <<>>, phase_clean |-> TRUE]
PassNames == {"steer", "integrate", "collide"}

(* ----------------------------- SpatialHash ----------------------------- *)
get_key(x, y) ==
    LET cx == Min(CastUsize(x, cell_size), cols - 1)
        cy == Min(CastUsize(y, cell_size), rows - 1)
    IN  cy * cols + cx

\* the insertion loop of rebuild, from entity i on
RECURSIVE InsertAllNoAliveCheck(_, _, _)
InsertAllNoAliveCheck(i, b, n) ==
    IF i >= count THEN [buckets |-> b, next |-> n]
    ELSE LET key == get_key(pos_x[i], pos_y[i])
         IN  InsertAllNoAliveCheck(i + 1, [b EXCEPT ![key] = i], [n EXCEPT ![i] = b[key]])

RECURSIVE InsertAll(_, _, _)
InsertAll(i, b, n) ==
    IF i >= count THEN [buckets |-> b, next |-> n]
    ELSE IF alive[i] = 0 THEN InsertAll(i + 1, b, n)
    ELSE LET key == get_key(pos_x[i], pos_y[i])
         IN  InsertAll(i + 1, [b EXCEPT ![key] = i], [n EXCEPT ![i] = b[key]])

\* buckets.fill(-1); next.fill(-1); then the insertion loop
rebuild == InsertAll(0, [k \in Buckets |-> -1], [i \in Entities |-> -1])

\* the `while idx != -1` walk of one bucket chain
RECURSIVE Chain(_, _)
Chain(n, idx) == IF idx = -1 THEN <<>> ELSE <<idx>> \o Chain(n, n[idx])

RECURSIVE ConcatAll(_, _)
ConcatAll(f, k) == IF k = 0 THEN <<>> ELSE ConcatAll(f, k - 1) \o f[k]

\* cells cy in y0..=y1, cx in x0..=x1 in the order of the nested loops
BoxCells(x0, x1, y0, y1) ==
    IF x1 < x0 \/ y1 < y0 THEN <<>>
    ELSE LET w == x1 - x0 + 1
             h == y1 - y0 + 1
         IN  [k \in 1 .. (w * h) |-> [cx |-> x0 + ((k - 1) % w), cy |-> y0 + ((k - 1) \div w)]]

\* query_neighbors with the upper corner of the box taken at x - r, y - r
query_neighbors_LowCorner(x, y, radius) ==
    LET r  == radius + cell_size
        x0 == CastUsize(x - r, cell_size)
        y0 == CastUsize(y - r, cell_size)
        x1 == Min(CastUsize(x - r, cell_size), cols - 1)
        y1 == Min(CastUsize(y - r, cell_size), rows - 1)
        cells == BoxCells(x0, x1, y0, y1)
    IN  ConcatAll([k \in 1 .. Len(cells) |-> Chain(next, buckets[cells[k].cy * cols + cells[k].cx])],
                  Len(cells))

query_neighbors(x, y, radius) ==
    LET r  == radius + cell_size
        x0 == CastUsize(x - r, cell_size)
        y0 == CastUsize(y - r, cell_size)
        x1 == Min(CastUsize(x + r, cell_size), cols - 1)
        y1 == Min(CastUsize(y + r, cell_size), rows - 1)
        cells == BoxCells(x0, x1, y0, y1)
    IN  ConcatAll([k \in 1 .. Len(cells) |-> Chain(next, buckets[cells[k].cy * cols + cells[k].cx])],
                  Len(cells))

\* the chain walk of one cell: `while idx != -1 && checked < limit`
RECURSIVE WalkLimited(_, _, _, _)
WalkLimited(idx, limit, accept, acc) ==
    IF idx = -1 \/ acc.checked >= limit THEN acc
    ELSE Bind([visited |-> Append(acc.visited, idx),
               checked |-> IF idx \in accept THEN acc.checked + 1 ELSE acc.checked],
              LAMBDA a : WalkLimited(next[idx], limit, accept, a))

\* the cells of the rings 0..max_ring in plain row order, without the ring loop
RingCellsRowOrder(x0, x1, y0, y1, center_cx, center_cy, max_ring) ==
    SelectSeq(BoxCells(x0, x1, y0, y1), LAMBDA c :
                  Max(Abs(c.cx - center_cx), Abs(c.cy - center_cy)) <= max_ring)

\* the cells the ring loops process, in processing order
RingCells(x0, x1, y0, y1, center_cx, center_cy, max_ring) ==
    LET box == BoxCells(x0, x1, y0, y1)
        OnRing(ring) == SelectSeq(box, LAMBDA c :
                            Max(Abs(c.cx - center_cx), Abs(c.cy - center_cy)) = ring)
    IN  ConcatAll([k \in 1 .. (max_ring + 1) |-> OnRing(k - 1)], max_ring + 1)

\* cells k.. of the ring order; returns as soon as checked >= limit
RECURSIVE ScanCells(_, _, _, _, _)
ScanCells(cells, k, limit, accept, acc) ==
    IF k > Len(cells) THEN acc
    ELSE Bind(WalkLimited(buckets[cells[k].cy * cols + cells[k].cx], limit, accept, acc),
              LAMBDA a : IF a.checked >= limit THEN a
                         ELSE ScanCells(cells, k + 1, limit, accept, a))

\* the callback is the predicate `j \in accept`
for_each_neighbor_limited(x, y, radius, limit, accept) ==
    LET r  == radius
        x0 == CastUsize(x - r, cell_size)
        y0 == CastUsize(y - r, cell_size)
        x1 == Min(CastUsize(x + r, cell_size), cols - 1)
        y1 == Min(CastUsize(y + r, cell_size), rows - 1)
        center_cx == CastUsize(x, cell_size)
        center_cy == CastUsize(y, cell_size)
        max_ring == Max(x1 - x0, y1 - y0) \div 2
    IN  IF x1 < x0 \/ y1 < y0
        THEN [visited |-> <<>>, checked |-> 0, underflow |-> TRUE]
        ELSE LET a == ScanCells(RingCells(x0, x1, y0, y1, center_cx, center_cy, max_ring),
                                1, limit, accept, [visited |-> <<>>, checked |-> 0])
             IN  [visited |-> a.visited, checked |-> a.checked, underflow |-> FALSE]

(* ------------------------------- SimCore ------------------------------- *)
\* SimCore::new(capacity, world_width, world_height, cell_size)
New(world_width, world_height, cs) ==
    /\ width = world_width /\ height = world_height /\ cell_size = cs
    /\ pos_x = [i \in Entities |-> 0]
    /\ pos_y = [i \in Entities |-> 0]
    /\ vel_x = [i \in Entities |-> 0]
    /\ vel_y = [i \in Entities |-> 0]
    /\ energy = [i \in Entities |-> 50]
    /\ alive = [i \in Entities |-> 0]
    /\ tribe_id = [i \in Entities |-> 0]
    /\ genes = [g \in 0 .. (capacity * GENES_PER_ENTITY - 1) |-> 0]
    /\ count = 0
    /\ buckets = [k \in 0 .. (Max(CeilUsize(world_width, cs), 1) * Max(CeilUsize(world_height, cs), 1) - 1) |-> -1]
    /\ next = [i \in Entities |-> -1]

\* SimCore::new(capacity, 40.0, 20.0, 10.0)
InitNew ==
    /\ New(40, 20, 10)
    /\ op = NoOp
    /\ out = NoOut
    /\ hist = NoHist

\* a 1 x 1 map of blocked terrain, for the specifications that use no map
InitNoMap ==
    /\ grid_width = 1 /\ grid_height = 1
    /\ traversability = {}
    /\ cache = <<>>
    /\ cache_generation = 0

set_count(c) ==
    /\ count' = Min(c, capacity)
    /\ op' = [NoOp EXCEPT !.name = "set_count"]
    /\ out' = NoOut
    /\ UNCHANGED <<pos_x, pos_y, vel_x, vel_y, energy, alive, tribe_id, genes, worldVars,
                   buckets, next, mapVars, hist>>

rebuild_spatial_hash ==
    /\ buckets' = rebuild.buckets
    /\ next' = rebuild.next
    /\ op' = [NoOp EXCEPT !.name = "rebuild",
                          !.flag = (buckets # [k \in Buckets |-> -1] /\ buckets # rebuild.buckets)]
    /\ out' = NoOut
    /\ UNCHANGED <<simVars, mapVars, hist>>

\* the gene buffer of a host: component k of the 9 floats of one entity row,
\* [speed, vision, metabolism, repro_chance, aggression, cohesion,
\*  food_standards, diet, view_angle]; metabolism, cohesion and diet are in
\* units of 0.01, view_angle in degrees
GeneOf(row, k) ==
    CASE k = 0 -> row.speed
      [] k = 1 -> row.vision
      [] k = 2 -> row.metabolism
      [] k = 5 -> row.cohesion
      [] k = 7 -> row.diet
      [] k = 8 -> row.view_angle
      [] OTHER -> 0

\* the arrays after SimCore::new(capacity, w, h, cs) and load_from_buffers
\* with slices of length n <= capacity whose entity i is d[i]
Loaded(w, h, cs, n, d) ==
    /\ width = w /\ height = h /\ cell_size = cs
    /\ pos_x = [i \in Entities |-> IF i < n THEN d[i].px ELSE 0]
    /\ pos_y = [i \in Entities |-> IF i < n THEN d[i].py ELSE 0]
    /\ vel_x = [i \in Entities |-> IF i < n THEN d[i].vx ELSE 0]
    /\ vel_y = [i \in Entities |-> IF i < n THEN d[i].vy ELSE 0]
    /\ energy = [i \in Entities |-> IF i < n THEN d[i].energy ELSE 50]
    /\ alive = [i \in Entities |-> IF i < n THEN d[i].alive ELSE 0]
    /\ tribe_id = [i \in Entities |-> IF i < n THEN d[i].tribe_id ELSE 0]
    /\ genes = [g \in 0 .. (capacity * GENES_PER_ENTITY - 1) |->
                    IF g < n * GENES_PER_ENTITY
                    THEN GeneOf(d[g \div GENES_PER_ENTITY], g % GENES_PER_ENTITY)
                    ELSE 0]
    /\ count = n
    /\ buckets = [k \in 0 .. (Max(CeilUsize(w, cs), 1) * Max(CeilUsize(h, cs), 1) - 1) |-> -1]
    /\ next = [i \in Entities |-> -1]
    /\ op = [NoOp EXCEPT !.name = "load"]
    /\ out = NoOut
    /\ hist = NoHist

\* load_from_buffers with slices of length n; d[i] is the data of entity i
load_from_buffers(n, d) ==
    LET c == Min(n, capacity)
    IN  /\ pos_x' = [i \in Entities |-> IF i < c THEN d[i].px ELSE pos_x[i]]
        /\ pos_y' = [i \in Entities |-> IF i < c THEN d[i].py ELSE pos_y[i]]
        /\ vel_x' = [i \in Entities |-> IF i < c THEN d[i].vx ELSE vel_x[i]]
        /\ vel_y' = [i \in Entities |-> IF i < c THEN d[i].vy ELSE vel_y[i]]
        /\ energy' = [i \in Entities |-> IF i < c THEN d[i].energy ELSE energy[i]]
        /\ alive' = [i \in Entities |-> IF i < c THEN d[i].alive ELSE alive[i]]
        /\ tribe_id' = [i \in Entities |-> IF i < c THEN d[i].tribe_id ELSE tribe_id[i]]
        /\ genes' = [g \in DOMAIN genes |->
                        IF g < Min(c * 9, capacity * GENES_PER_ENTITY)
                        THEN GeneOf(d[g \div GENES_PER_ENTITY], g % GENES_PER_ENTITY)
                        ELSE genes[g]]
        /\ count' = c
        /\ op' = [NoOp EXCEPT !.name = "load"]
        /\ out' = NoOut
        /\ UNCHANGED <<worldVars, hashVars, mapVars, hist>>

QueryNeighbors(x, y, radius) ==
    /\ out' = [NoOut EXCEPT !.results = query_neighbors(x, y, radius)]
    /\ op' = [NoOp EXCEPT !.name = "query", !.x = x, !.y = y, !.radius = radius]
    /\ UNCHANGED <<simVars, hashVars, mapVars, hist>>

ForEachNeighborLimited(x, y, radius, limit, accept) ==
    LET res == for_each_neighbor_limited(x, y, radius, limit, accept)
    IN  /\ IF res.underflow
           THEN \E panics \in BOOLEAN : out' = [NoOut EXCEPT !.aborted = panics]
           ELSE out' = [NoOut EXCEPT !.results = res.visited, !.ret = res.checked]
        /\ op' = [NoOp EXCEPT !.name = "limited", !.x = x, !.y = y, !.radius = radius,
                              !.limit = limit, !.accept = accept, !.flag = res.underflow]
        /\ UNCHANGED <<simVars, hashVars, mapVars, hist>>

(* --------------------- inputs of the index specifications -------------- *)
PosSet == {<<2, 5>>, <<8, 5>>, <<15, 5>>, <<25, 15>>}
AlignedPts == {<<0, 0>>, <<10, 10>>, <<30, 10>>}
LimitedPts == {<<12, 5>>, <<2, 5>>, <<22, 5>>}
RadiusSet == {0, 5, 25}
AcceptSets == {Entities, {0}, {}}

\* entity rows a host loads: a position, an alive flag, zero velocity and genes
Row(p, a) == [px |-> p[1], py |-> p[2], vx |-> 0, vy |-> 0, energy |-> 50, alive |-> a,
              tribe_id |-> 0, speed |-> 0, vision |-> 0, metabolism |-> 0, cohesion |-> 0,
              diet |-> 0, view_angle |-> 0]
\* rows of the rebuild specification: two cells, alive or dead
IndexRows == {Row(p, a) : p \in {<<2, 5>>, <<25, 15>>}, a \in {0, 1}}
\* rows of the query specification: every position alive, and one dead entity
QueryRows == {Row(p, 1) : p \in PosSet} \cup {Row(<<8, 5>>, 0)}

Load(data) == \E n \in 0 .. MaxLoad : \E d \in [0 .. (n - 1) -> data] : load_from_buffers(n, d)
SetCount == \E c \in 0 .. (capacity + 1) : set_count(c)
Query == \E p \in AlignedPts, r \in RadiusSet : QueryNeighbors(p[1], p[2], r)
Limited == \E p \in LimitedPts, r \in RadiusSet \ {0}, l \in 0 .. MaxLimit, acc \in AcceptSets :
               ForEachNeighborLimited(p[1], p[2], r, l, acc)

\* the index under load_from_buffers / set_count / rebuild in any order
NextIndex == Load(IndexRows) \/ SetCount \/ rebuild_spatial_hash
InitIndex == InitNew /\ InitNoMap
SpecIndex == InitIndex /\ [][NextIndex]_vars

\* a loaded population, then rebuild and the neighbour queries
InitQuery ==
    \E n \in 0 .. MaxLoad : \E d \in [0 .. (n - 1) -> QueryRows] :
        /\ Loaded(40, 20, 10, n, d)
        /\ InitNoMap
NextQuery == rebuild_spatial_hash \/ Query \/ Limited
SpecQuery == InitQuery /\ [][NextQuery]_vars

(* --------------------------- BiomeCollisionMap ------------------------- *)
\* `traversability` is the set of the cells whose stored byte is 1.
\* `cache` maps the filled slots (the Some entries) to the cached flag `val`;
\* `src`, the cell the flag was read from, is history and is never read by
\* the lookup.
\* bound of cache_generation in the model (a u32 in the program)
MaxGeneration == 2

map_world_width == grid_width * map_cell_size
map_world_height == grid_height * map_cell_size
GridLen == grid_width * grid_height
cache_len == Min(grid_width * grid_height, CACHE_MAX)

\* the % of Rust on f32: the remainder has the sign of the dividend
RustRem(a, b) == IF a >= 0 THEN a % b ELSE -((-a) % b)
\* division rounding toward zero, for the products of f32 values
TruncDiv(a, b) == IF a >= 0 THEN a \div b ELSE -((-a) \div b)

wrapped(v, extent) == RustRem(RustRem(v, extent) + extent, extent)
\* the cell index a world point discretizes to, -1 when out of the grid
CellIndex(world_x, world_y) ==
    LET grid_x == CastUsize(wrapped(world_x, map_world_width), map_cell_size)
        grid_y == CastUsize(wrapped(world_y, map_world_height), map_cell_size)
    IN  IF grid_x >= grid_width \/ grid_y >= grid_height THEN -1
        ELSE grid_y * grid_width + grid_x

\* is_traversable on a map whose cache is c: the answer and the cache after
is_traversable(c, world_x, world_y) ==
    LET idx == CellIndex(world_x, world_y)
        cache_idx == idx % cache_len
    IN  IF idx = -1 THEN [val |-> FALSE, cache |-> c, src |-> -1]
        ELSE IF cache_idx \in DOMAIN c
             THEN [val |-> c[cache_idx].val, cache |-> c, src |-> c[cache_idx].src]
             ELSE LET flag == idx \in traversability
                  IN  [val |-> flag, src |-> idx,
                       cache |-> [k \in DOMAIN c \cup {cache_idx} |->
                                     IF k = cache_idx THEN [val |-> flag, src |-> idx] ELSE c[k]]]

clear_cache == [cache |-> <<>>, cache_generation |-> cache_generation + 1]

\* update_traversability that keeps the cache
update_traversability_KeepCache(len, new_data) ==
    IF len = GridLen
    THEN [traversability |-> new_data, cache |-> cache, cache_generation |-> cache_generation]
    ELSE [traversability |-> traversability, cache |-> cache, cache_generation |-> cache_generation]

\* update_traversability that clears the cache before the length check
update_traversability_ClearFirst(len, new_data) ==
    IF len = GridLen
    THEN [traversability |-> new_data, cache |-> clear_cache.cache,
          cache_generation |-> clear_cache.cache_generation]
    ELSE [traversability |-> traversability, cache |-> clear_cache.cache,
          cache_generation |-> clear_cache.cache_generation]

\* update_traversability with a slice of length len whose bytes equal to 1 are new_data
update_traversability(len, new_data) ==
    IF len = GridLen
    THEN [traversability |-> new_data, cache |-> clear_cache.cache,
          cache_generation |-> clear_cache.cache_generation]
    ELSE [traversability |-> traversability, cache |-> cache, cache_generation |-> cache_generation]

IsTraversable(world_x, world_y) ==
    LET res == is_traversable(cache, world_x, world_y)
    IN  /\ cache' = res.cache
        /\ out' = [NoOut EXCEPT !.val = res.val, !.src = res.src]
        /\ op' = [NoOp EXCEPT !.name = "is_traversable", !.x = world_x, !.y = world_y]
        /\ UNCHANGED <<simVars, hashVars, traversability, grid_width, grid_height,
                       cache_generation, hist>>

ClearCache ==
    /\ cache_generation < MaxGeneration
    /\ cache' = clear_cache.cache
    /\ cache_generation' = clear_cache.cache_generation
    /\ op' = [NoOp EXCEPT !.name = "clear_cache"]
    /\ out' = NoOut
    /\ UNCHANGED <<simVars, hashVars, traversability, grid_width, grid_height, hist>>

UpdateTraversability(len, new_data) ==
    LET res == update_traversability(len, new_data)
    IN  /\ cache_generation < MaxGeneration
        /\ traversability' = res.traversability
        /\ cache' = res.cache
        /\ cache_generation' = res.cache_generation
        /\ op' = [NoOp EXCEPT !.name = "update", !.flag = (len = GridLen)]
        /\ out' = NoOut
        /\ hist' = [hist EXCEPT !.stale =
                       IF len = GridLen
                       THEN {cache[k].src : k \in {j \in DOMAIN cache :
                                 cache[j].val # (cache[j].src \in new_data)}}
                       ELSE hist.stale]
        /\ UNCHANGED <<simVars, hashVars, grid_width, grid_height>>

(* ----------------------- apply_collision_constraints ------------------- *)
\* cos and sin of 0, 45, ..., 315 degrees in thousandths
Angles == << <<1000, 0>>, <<707, 707>>, <<0, 1000>>, <<-707, 707>>,
             <<-1000, 0>>, <<-707, -707>>, <<0, -1000>>, <<707, -707>> >>
escape_dist == map_cell_size * 2
EscapeVel(k) == <<TruncDiv(Angles[k][1] * ESCAPE_SPEED, 1000),
                  TruncDiv(Angles[k][2] * ESCAPE_SPEED, 1000)>>
\* the world point is_traversable is asked about for probe k from (x, y)
ProbeX(k, x) == x + TruncDiv(Angles[k][1] * escape_dist, 1000)
ProbeFlippedY(k, y) == map_world_height - (y + TruncDiv(Angles[k][2] * escape_dist, 1000))

\* the probe loop from probe k on: the velocity and the cache after it
RECURSIVE EscapeProbes(_, _, _, _, _, _)
EscapeProbes(k, c, current_x, current_y, vx, vy) ==
    IF k > Len(Angles) THEN [vx |-> vx, vy |-> vy, cache |-> c]
    ELSE Bind(is_traversable(c, ProbeX(k, current_x), ProbeFlippedY(k, current_y)),
              LAMBDA t : IF t.val
                         THEN [vx |-> EscapeVel(k)[1], vy |-> EscapeVel(k)[2], cache |-> t.cache]
                         ELSE EscapeProbes(k + 1, t.cache, current_x, current_y, vx, vy))

\* the loop body for one entity, on a map whose cache is c
CollideEntity(c, current_x, current_y, vx, vy, dt) ==
    LET next_x == current_x + vx * dt
        next_y == current_y + vy * dt
        flipped_y == map_world_height - next_y
        flipped_current_y == map_world_height - current_y
    IN  Bind(is_traversable(c, next_x, flipped_y), LAMBDA direct :
        IF direct.val
        THEN [px |-> next_x, py |-> next_y, vx |-> vx, vy |-> vy, cache |-> direct.cache]
        ELSE Bind(is_traversable(direct.cache, next_x, flipped_current_y), LAMBDA horizontal :
        IF horizontal.val
        THEN [px |-> next_x, py |-> current_y, vx |-> vx, vy |-> TruncDiv(vy * (-5), 10),
              cache |-> horizontal.cache]
        ELSE Bind(is_traversable(horizontal.cache, current_x, flipped_y), LAMBDA vertical :
        IF vertical.val
        THEN [px |-> current_x, py |-> next_y, vx |-> TruncDiv(vx * (-5), 10), vy |-> vy,
              cache |-> vertical.cache]
        ELSE Bind(EscapeProbes(1, vertical.cache, current_x, current_y,
                               TruncDiv(vx * (-8), 10), TruncDiv(vy * (-8), 10)), LAMBDA e :
             [px |-> current_x, py |-> current_y, vx |-> e.vx, vy |-> e.vy,
              cache |-> e.cache]))))

\* `for i in 0..pos_x.len()` from entity i on, over slices of length n
RECURSIVE CollideFrom(_, _, _, _)
CollideFrom(i, n, dt, st) ==
    IF i >= n THEN st
    ELSE Bind(CollideEntity(st.cache, st.pos_x[i], st.pos_y[i], st.vel_x[i], st.vel_y[i], dt),
              LAMBDA e : Bind([pos_x |-> [st.pos_x EXCEPT ![i] = e.px],
                               pos_y |-> [st.pos_y EXCEPT ![i] = e.py],
                               vel_x |-> [st.vel_x EXCEPT ![i] = e.vx],
                               vel_y |-> [st.vel_y EXCEPT ![i] = e.vy],
                               cache |-> e.cache],
                              LAMBDA st2 : CollideFrom(i + 1, n, dt, st2)))

\* bound on the number of passes of each kind (steering of one entity,
\* integration, collision) of one behaviour
MaxPasses == 1

\* the history a pass starts with: the arrays before it, and the pass that ran
\* right before it, if the last operation was a pass
PassBegin ==
    [hist EXCEPT !.pos_x = pos_x, !.pos_y = pos_y, !.vel_x = vel_x, !.vel_y = vel_y,
                 !.prev = IF op.name \in PassNames
                          THEN [name |-> op.name, start |-> op.start, end |-> op.end,
                                dt |-> op.dt, aborted |-> out.aborted,
                                pos_x |-> hist.pos_x, pos_y |-> hist.pos_y,
                                vel_x |-> hist.vel_x, vel_y |-> hist.vel_y]
                          ELSE NoPrev]

\* apply_collision_constraints on the slices [0, count) of the arrays
ApplyCollisionConstraints(dt) ==
    LET res == CollideFrom(0, count, dt, [pos_x |-> pos_x, pos_y |-> pos_y,
                                          vel_x |-> vel_x, vel_y |-> vel_y, cache |-> cache])
    IN  /\ hist.collisions < MaxPasses
        /\ pos_x' = res.pos_x /\ pos_y' = res.pos_y
        /\ vel_x' = res.vel_x /\ vel_y' = res.vel_y
        /\ cache' = res.cache
        /\ op' = [NoOp EXCEPT !.name = "collide", !.dt = dt, !.start = 0, !.end = count]
        /\ out' = NoOut
        /\ hist' = [PassBegin EXCEPT !.collisions = hist.collisions + 1]
        /\ UNCHANGED <<energy, alive, tribe_id, genes, count, worldVars, hashVars,
                       traversability, grid_width, grid_height, cache_generation>>

(* ---------------------- inputs of the map specification ---------------- *)
\* 3 x 3 cells, and 101 x 100 = 10100 cells, more than the cache has slots
GridSizes == {<<3, 3>>, <<101, 100>>}
\* world points of lookups; (15, 995) is cell 10000 of the large grid
LookupPts == {<<5, 5>>, <<15, 995>>, <<-5, 5>>, <<25, 985>>}
\* grids: the cells of any of the lookup points traversable, the others blocked
Terrains == {{CellIndex(p[1], p[2]) : p \in S} : S \in SUBSET LookupPts}

Lookup == \E p \in LookupPts : IsTraversable(p[1], p[2])
Update == \E t \in Terrains, len \in {GridLen, GridLen - 1} : UpdateTraversability(len, t)

InitMap ==
    /\ InitNew
    /\ \E g \in GridSizes : grid_width = g[1] /\ grid_height = g[2]
    /\ traversability \in Terrains
    /\ cache = <<>>
    /\ cache_generation = 0
NextMap == Lookup \/ Update \/ ClearCache
SpecMap == InitMap /\ [][NextMap]_vars

(* -------------------- inputs of the collision specification ------------ *)
\* entities next to the lower left corner of the map, moving or at rest
CollideRows == {[Row(p, 1) EXCEPT !.vx = v[1], !.vy = v[2], !.speed = 30, !.metabolism = 15] :
                    p \in {<<5, 15>>, <<15, 5>>}, v \in {<<10, -5>>, <<0, 0>>, <<-10, 10>>}}
\* points (in entity coordinates, y up) whose cells the grids make traversable
CollidePts == {<<15, 10>>, <<5, -5>>, <<25, 15>>, <<19, 29>>, <<5, 10>>}
CollideTerrains == {{CellIndex(p[1], map_world_height - p[2]) : p \in S} : S \in SUBSET CollidePts}

Collide == \E dt \in {1} : ApplyCollisionConstraints(dt)

InitCollide ==
    /\ \E n \in 0 .. MaxLoad : \E d \in [0 .. (n - 1) -> CollideRows] :
           Loaded(40, 20, 10, n, d)
    /\ \E g \in GridSizes : grid_width = g[1] /\ grid_height = g[2]
    /\ traversability \in CollideTerrains
    /\ cache = <<>>
    /\ cache_generation = 0
NextCollide == Collide \/ ClearCache
SpecCollide == InitCollide /\ [][NextCollide]_vars

(* ------------------------------ integrate_batch ------------------------ *)
\* f32::sqrt on the integer grid of the model: the integer square root
ISqrt(n) == CHOOSE r \in 0 .. n : r * r <= n /\ (r + 1) * (r + 1) > n

\* one axis of the toroidal wrap
WrapOnce(p, extent) == IF p < 0 THEN p + extent ELSE IF p >= extent THEN p - extent ELSE p

\* the loop body with the genes read at the slice index i, not at start_idx + i
IntegrateEntityLocalGenes(i, start_idx, px, py, vx, vy, dt) ==
    LET entity_idx == i
        speed == genes[entity_idx * GENES_PER_ENTITY]
        metabolism == genes[entity_idx * GENES_PER_ENTITY + 2]
        max_speed == TruncDiv(speed * Min(metabolism, REF_METABOLISM), REF_METABOLISM)
        vel_mag == ISqrt(vx * vx + vy * vy)
        clamp == vel_mag > max_speed /\ vel_mag > 0
        nvx == IF clamp THEN TruncDiv(vx * max_speed, vel_mag) ELSE vx
        nvy == IF clamp THEN TruncDiv(vy * max_speed, vel_mag) ELSE vy
    IN  [px |-> WrapOnce(px + nvx * dt, width), py |-> WrapOnce(py + nvy * dt, height),
         vx |-> nvx, vy |-> nvy]

\* the loop body for slice index i: metabolism is in units of 0.01, so
\* metabolism_efficiency = min(metabolism / 0.15, 1) = Min(metabolism, 15) / 15;
\* `vel_mag > 0.0001` is `vel_mag > 0` on integers
IntegrateEntity(i, start_idx, px, py, vx, vy, dt) ==
    LET entity_idx == start_idx + i
        speed == genes[entity_idx * GENES_PER_ENTITY]
        metabolism == genes[entity_idx * GENES_PER_ENTITY + 2]
        max_speed == TruncDiv(speed * Min(metabolism, REF_METABOLISM), REF_METABOLISM)
        vel_mag == ISqrt(vx * vx + vy * vy)
        clamp == vel_mag > max_speed /\ vel_mag > 0
        nvx == IF clamp THEN TruncDiv(vx * max_speed, vel_mag) ELSE vx
        nvy == IF clamp THEN TruncDiv(vy * max_speed, vel_mag) ELSE vy
    IN  [px |-> WrapOnce(px + nvx * dt, width), py |-> WrapOnce(py + nvy * dt, height),
         vx |-> nvx, vy |-> nvy]

\* integrate_batch on the slices [start_idx, end) of the arrays
integrate_batch(start_idx, end, dt) ==
    LET E(k) == IntegrateEntity(k - start_idx, start_idx, pos_x[k], pos_y[k], vel_x[k], vel_y[k], dt)
        In(k) == start_idx <= k /\ k < end
    IN  [pos_x |-> [k \in Entities |-> IF In(k) THEN E(k).px ELSE pos_x[k]],
         pos_y |-> [k \in Entities |-> IF In(k) THEN E(k).py ELSE pos_y[k]],
         vel_x |-> [k \in Entities |-> IF In(k) THEN E(k).vx ELSE vel_x[k]],
         vel_y |-> [k \in Entities |-> IF In(k) THEN E(k).vy ELSE vel_y[k]]]

\* SimCore::integrate_physics_batch; the slicing [start_idx..end] panics when
\* start_idx > end
integrate_physics_batch(start_idx, end_idx, dt) ==
    LET end == Min(end_idx, count)
        res == integrate_batch(start_idx, end, dt)
    IN  /\ hist.passes < MaxPasses
        /\ op' = [NoOp EXCEPT !.name = "integrate", !.start = start_idx, !.end = end, !.dt = dt]
        /\ hist' = [PassBegin EXCEPT !.passes = hist.passes + 1]
        /\ IF start_idx > end
           THEN /\ out' = [NoOut EXCEPT !.aborted = TRUE]
                /\ UNCHANGED <<pos_x, pos_y, vel_x, vel_y>>
           ELSE /\ out' = NoOut
                /\ pos_x' = res.pos_x /\ pos_y' = res.pos_y
                /\ vel_x' = res.vel_x /\ vel_y' = res.vel_y
        /\ UNCHANGED <<energy, alive, tribe_id, genes, count, worldVars, hashVars, mapVars>>

(* ------------------- inputs of the integration specification ----------- *)
\* position, velocity, speed gene and metabolism gene (in units of 0.01):
\* positions inside the world, less than one extent outside it and more than
\* one extent outside it; velocities below, just above and far above the cap
PhysData == {<<38, 15, 3, 4, 10, 15>>, <<45, -5, -30, 10, 30, 30>>,
             <<38, 15, -30, 10, 30, 5>>, <<90, 5, 0, 0, 0, 15>>, <<45, -5, 3, 4, 0, 0>>}
PhysRows == {[Row(<<r[1], r[2]>>, 1) EXCEPT !.vx = r[3], !.vy = r[4], !.speed = r[5],
                                            !.metabolism = r[6]] : r \in PhysData}

Integrate == \E a \in 0 .. capacity, b \in 0 .. capacity, dt \in {1, 2} :
                 integrate_physics_batch(a, b, dt)

InitPhys ==
    /\ \E d \in [0 .. (MaxLoad - 1) -> PhysRows] : Loaded(40, 20, 10, MaxLoad, d)
    /\ InitNoMap
NextPhys == Integrate
SpecPhys == InitPhys /\ [][NextPhys]_vars

(* ------------------------ process_entity_movement ---------------------- *)
\* Unit vectors, forces and cosines are in thousandths; metabolism, cohesion
\* and diet genes and the hunting threshold in hundredths; sqrt is the integer
\* square root of the model's grid.

\* the index is the one rebuild produces from the current arrays
Fresh == buckets = rebuild.buckets /\ next = rebuild.next

\* cos of 0, 1, ..., 90 degrees in thousandths
CosTable ==
    <<1000, 1000, 999, 999, 998, 996, 995, 993, 990, 988,
      985, 982, 978, 974, 970, 966, 961, 956, 951, 946,
      940, 934, 927, 921, 914, 906, 899, 891, 883, 875,
      866, 857, 848, 839, 829, 819, 809, 799, 788, 777,
      766, 755, 743, 731, 719, 707, 695, 682, 669, 656,
      643, 629, 616, 602, 588, 574, 559, 545, 530, 515,
      500, 485, 469, 454, 438, 423, 407, 391, 375, 358,
      342, 326, 309, 292, 276, 259, 242, 225, 208, 191,
      174, 156, 139, 122, 105, 87, 70, 52, 35, 17, 0>>
\* f32::cos and f32::sin of an angle of whole degrees, in thousandths
Cos1000(deg) ==
    LET d == Abs(deg) % 360
    IN  IF d <= 90 THEN CosTable[d + 1]
        ELSE IF d <= 180 THEN -CosTable[180 - d + 1]
        ELSE IF d <= 270 THEN -CosTable[d - 180 + 1]
        ELSE CosTable[360 - d + 1]
Sin1000(deg) == Cos1000(deg - 90)

\* (x * x + y * y).sqrt()
Norm(x, y) == Bind(x * x + y * y, LAMBDA n : ISqrt(n))

get_gene(entity_idx, gene_idx) == genes[entity_idx * GENES_PER_ENTITY + gene_idx]

\* the sum of f over the entities
RECURSIVE SumTo(_, _)
SumTo(f, n) == IF n < 0 THEN 0 ELSE f[n] + SumTo(f, n - 1)
Sum(f) == Bind(f, LAMBDA g : SumTo(g, capacity - 1))

\* speed * (metabolism / 0.15).min(1.0)
effective_speed(i) ==
    TruncDiv(get_gene(i, 0) * Min(get_gene(i, 2), REF_METABOLISM), REF_METABOLISM)
\* 95.0 - diet.max(0.0) * 35.0, in hundredths
hunting_threshold(i) == 9500 - Max(get_gene(i, 7), 0) * 35
\* carnivore_level > 0.2 && my_energy < hunting_threshold
should_hunt(i) == Max(get_gene(i, 7), 0) > 20 /\ energy[i] * 100 < hunting_threshold(i)

\* the first part of process_entity_movement for entity i, up to the end of
\* the neighbour scan, when the velocity arrays are vx, vy: what the callback
\* has accumulated, and whether the scan underflowed. The vector `neighbors`
\* is filled but never read and is left out.
Perceive(i, vx, vy) ==
    LET px == pos_x[i]
        py == pos_y[i]
        my_tribe == tribe_id[i]
        vision == get_gene(i, 1)
        view_angle == get_gene(i, 8)
        \* cos and sin of atan2(vel_y, vel_x); atan2(0, 0) = 0
        my_mag == Norm(vx[i], vy[i])
        view_dir_x == IF my_mag = 0 THEN 1000 ELSE TruncDiv(vx[i] * 1000, my_mag)
        view_dir_y == IF my_mag = 0 THEN 0 ELSE TruncDiv(vy[i] * 1000, my_mag)
        view_cos_threshold == Cos1000(TruncDiv(view_angle, 2))
        hunt_vision == IF should_hunt(i) THEN TruncDiv(vision * 3, 2) ELSE vision
        max_vision == Max(vision, hunt_vision)
        vision_sq == vision * vision
        hunt_vision_sq == hunt_vision * hunt_vision
        dx(j) == pos_x[j] - px
        dy(j) == pos_y[j] - py
        dist_sq(j) == dx(j) * dx(j) + dy(j) * dy(j)
        \* dot > view_cos_threshold; 0 / 0 is NaN and compares false
        in_view(j) == /\ dist_sq(j) > 0
                      /\ TruncDiv(dx(j) * view_dir_x + dy(j) * view_dir_y, ISqrt(dist_sq(j)))
                             > view_cos_threshold
        \* the entities for which the callback returns true
        accept == {j \in Entities : /\ j # i
                                    /\ dist_sq(j) <= hunt_vision_sq
                                    /\ in_view(j) \/ 4 * dist_sq(j) <= vision_sq}
        is_ally(j) == tribe_id[j] = my_tribe
        catch_probability(j) == IF get_gene(j, 0) > 0
                                THEN Min(TruncDiv(effective_speed(i) * 1000, get_gene(j, 0)), 1000)
                                ELSE 1000
        score(j) == TruncDiv(dist_sq(j) * 100000, energy[j] * catch_probability(j) + 1000)
    IN  Bind(for_each_neighbor_limited(px, py, max_vision, MAX_NEIGHBORS * 2, accept), LAMBDA scan :
        \* the callbacks that got past the early returns, in call order
        Bind(SelectSeq(scan.visited, LAMBDA j : j \in accept), LAMBDA seen :
        \* the allies within vision, and those of them closer than 20
        Bind({j \in Entities : /\ \E k \in 1 .. Len(seen) : seen[k] = j
                               /\ is_ally(j) /\ dist_sq(j) < vision_sq}, LAMBDA flock :
        Bind({j \in flock : dist_sq(j) < 400 /\ dist_sq(j) > 0}, LAMBDA close :
        \* hunting candidates; the first callback with the least score wins
        Bind(SelectSeq(seen, LAMBDA j : should_hunt(i) /\ ~is_ally(j) /\ in_view(j)), LAMBDA prey :
        [nearby_allies |-> Cardinality(flock),
         align_x |-> Sum([j \in Entities |-> IF j \in flock THEN vx[j] ELSE 0]),
         align_y |-> Sum([j \in Entities |-> IF j \in flock THEN vy[j] ELSE 0]),
         cohesion_x |-> Sum([j \in Entities |-> IF j \in flock THEN pos_x[j] ELSE 0]),
         cohesion_y |-> Sum([j \in Entities |-> IF j \in flock THEN pos_y[j] ELSE 0]),
         separate_x |-> Sum([j \in Entities |-> IF j \in close
                                THEN -TruncDiv(dx(j) * 1000, ISqrt(dist_sq(j))) ELSE 0]),
         separate_y |-> Sum([j \in Entities |-> IF j \in close
                                THEN -TruncDiv(dy(j) * 1000, ISqrt(dist_sq(j))) ELSE 0]),
         best_prey |-> IF Len(prey) = 0 THEN -1
                       ELSE prey[CHOOSE k \in 1 .. Len(prey) : \A m \in 1 .. Len(prey) :
                                    \/ score(prey[k]) < score(prey[m])
                                    \/ score(prey[k]) = score(prey[m]) /\ k <= m],
         underflow |-> scan.underflow])))))

\* the steering force of entity i from what the callback accumulated
SteeringForce(i, acc) ==
    LET px == pos_x[i]
        py == pos_y[i]
        cohesion == get_gene(i, 5)
        \* alignment
        align_x == TruncDiv(acc.align_x, acc.nearby_allies)
        align_y == TruncDiv(acc.align_y, acc.nearby_allies)
        align_mag == Norm(align_x, align_y)
        aligning == acc.nearby_allies > 1 /\ align_mag > 0
        steer_align_x == IF aligning
                         THEN TruncDiv(TruncDiv(align_x * 1000, align_mag) * cohesion * 5, 1000) ELSE 0
        steer_align_y == IF aligning
                         THEN TruncDiv(TruncDiv(align_y * 1000, align_mag) * cohesion * 5, 1000) ELSE 0
        \* cohesion
        cohesion_x == TruncDiv(acc.cohesion_x, acc.nearby_allies) - px
        cohesion_y == TruncDiv(acc.cohesion_y, acc.nearby_allies) - py
        cohesion_mag == Norm(cohesion_x, cohesion_y)
        cohering == acc.nearby_allies > 0 /\ cohesion_mag > 0
        steer_cohesion_x == IF cohering
                            THEN TruncDiv(TruncDiv(cohesion_x * 1000, cohesion_mag) * cohesion * 3, 1000)
                            ELSE 0
        steer_cohesion_y == IF cohering
                            THEN TruncDiv(TruncDiv(cohesion_y * 1000, cohesion_mag) * cohesion * 3, 1000)
                            ELSE 0
        \* separation
        sep_mag == Norm(acc.separate_x, acc.separate_y)
        steer_separate_x == IF sep_mag > 1 THEN TruncDiv(acc.separate_x * 2000, sep_mag) ELSE 0
        steer_separate_y == IF sep_mag > 1 THEN TruncDiv(acc.separate_y * 2000, sep_mag) ELSE 0
        \* hunting
        prey_dx == pos_x[acc.best_prey] - px
        prey_dy == pos_y[acc.best_prey] - py
        prey_dist == Norm(prey_dx, prey_dy)
        hunting == acc.best_prey # -1 /\ prey_dist > 0
        hunger_desperation == Max(TruncDiv((hunting_threshold(i) - energy[i] * 100) * 1000,
                                           hunting_threshold(i)), 0)
        hunt_force == 3000 + hunger_desperation * 2
        steer_hunt_x == IF hunting
                        THEN TruncDiv(TruncDiv(prey_dx * 1000, prey_dist) * hunt_force, 1000) ELSE 0
        steer_hunt_y == IF hunting
                        THEN TruncDiv(TruncDiv(prey_dy * 1000, prey_dist) * hunt_force, 1000) ELSE 0
        \* wander: ((i * 12.34 + px * 56.78) % 1.0) * TAU, in whole degrees
        wander_angle == TruncDiv(RustRem(i * 1234 + px * 5678, 100) * 360, 100)
    IN  [x |-> steer_align_x + steer_cohesion_x + steer_separate_x + steer_hunt_x
                   + TruncDiv(Cos1000(wander_angle), 10),
         y |-> steer_align_y + steer_cohesion_y + steer_separate_y + steer_hunt_y
                   + TruncDiv(Sin1000(wander_angle), 10)]

\* process_entity_movement for entity i when the velocity arrays are vx, vy:
\* the velocity it stores for i, and whether the neighbour scan underflowed
process_entity_movement(i, vx, vy, dt) ==
    Bind(Perceive(i, vx, vy), LAMBDA acc :
    Bind(SteeringForce(i, acc), LAMBDA steer :
    \* vel += steer * dt * 10.0
    Bind([x |-> vx[i] + TruncDiv(steer.x * dt * 10, 1000),
          y |-> vy[i] + TruncDiv(steer.y * dt * 10, 1000)], LAMBDA nv :
    Bind(Norm(nv.x, nv.y), LAMBDA vel_mag :
    IF vel_mag > effective_speed(i)
    THEN [vx |-> TruncDiv(nv.x * effective_speed(i), vel_mag),
          vy |-> TruncDiv(nv.y * effective_speed(i), vel_mag), underflow |-> acc.underflow]
    ELSE [vx |-> nv.x, vy |-> nv.y, underflow |-> acc.underflow]))))

\* the loop `for i in start_idx..end` of process_movement_batch from entity i
\* on; st holds the velocity arrays so far. `panics` is the build's answer to
\* the usize underflow of the neighbour scan: a panic, or wrapping arithmetic
\* under which the scan visits nothing.
RECURSIVE SteerFrom(_, _, _, _, _)
SteerFrom(i, end, dt, panics, st) ==
    IF i >= end THEN st
    ELSE IF alive[i] = 0 THEN SteerFrom(i + 1, end, dt, panics, st)
    ELSE Bind(process_entity_movement(i, st.vel_x, st.vel_y, dt), LAMBDA e :
              IF e.underflow /\ panics THEN [st EXCEPT !.aborted = TRUE]
              ELSE Bind([vel_x |-> [st.vel_x EXCEPT ![i] = e.vx],
                         vel_y |-> [st.vel_y EXCEPT ![i] = e.vy],
                         aborted |-> FALSE],
                        LAMBDA st2 : SteerFrom(i + 1, end, dt, panics, st2)))

\* SimCore::process_movement_batch; the elapsed time it returns is not modelled
process_movement_batch(start_idx, end_idx, dt) ==
    LET end == Min(end_idx, count)
        In(i) == start_idx <= i /\ i < end
    IN  /\ \A i \in Entities : In(i) => hist.steered[i] < MaxPasses
        /\ \E panics \in BOOLEAN :
              LET res == SteerFrom(start_idx, end, dt, panics,
                                   [vel_x |-> vel_x, vel_y |-> vel_y, aborted |-> FALSE])
              IN  /\ vel_x' = res.vel_x /\ vel_y' = res.vel_y
                  /\ out' = [NoOut EXCEPT !.aborted = res.aborted]
                  /\ hist' = [PassBegin EXCEPT
                        !.steered = [i \in Entities |-> hist.steered[i] + IF In(i) THEN 1 ELSE 0],
                        !.phase_vel_x = IF \A i \in Entities : hist.steered[i] = 0
                                        THEN vel_x ELSE hist.phase_vel_x,
                        !.phase_vel_y = IF \A i \in Entities : hist.steered[i] = 0
                                        THEN vel_y ELSE hist.phase_vel_y,
                        !.phase_clean = hist.phase_clean /\ Fresh /\ ~res.aborted]
        /\ op' = [NoOp EXCEPT !.name = "steer", !.start = start_idx, !.end = end, !.dt = dt]
        /\ UNCHANGED <<pos_x, pos_y, energy, alive, tribe_id, genes, count, worldVars,
                       hashVars, mapVars>>

(* ---------------------- inputs of the tick specification --------------- *)
\* entities of a 40 x 20 world: allies of tribe 0 that flock, a hungry hunter
\* of tribe 1, and a dead entity that kept its velocity
Ally(p, v) == [Row(p, 1) EXCEPT !.vx = v[1], !.vy = v[2], !.speed = 30, !.vision = 20,
                                !.metabolism = 15, !.cohesion = 50, !.diet = -50,
                                !.view_angle = 120]
Hunter(p, v) == [Row(p, 1) EXCEPT !.vx = v[1], !.vy = v[2], !.speed = 30, !.vision = 20,
                                  !.metabolism = 30, !.diet = 80, !.view_angle = 360,
                                  !.energy = 10, !.tribe_id = 1]
Corpse(p, v) == [Ally(p, v) EXCEPT !.alive = 0]
\* the populations a host loads in that world
TickPopulations ==
    {<<Ally(<<12, 5>>, <<10, 0>>), Ally(<<15, 9>>, <<0, 10>>), Ally(<<18, 5>>, <<-10, 0>>)>>,
     <<Ally(<<12, 5>>, <<10, 0>>), Corpse(<<15, 5>>, <<3, 4>>), Ally(<<15, 9>>, <<0, 10>>)>>,
     <<Hunter(<<18, 5>>, <<-3, 4>>), Ally(<<12, 5>>, <<10, 0>>), Ally(<<15, 9>>, <<0, 10>>)>>}
\* the single entity of the 1000 x 1000 world
SoloRow == [Ally(<<500, 500>>, <<10, 0>>) EXCEPT !.speed = 20, !.vision = 50]
\* the worlds a host constructs and the population it loads in each
TickScenes ==
    {[w |-> 1000, h |-> 1000, cs |-> 50, n |-> 1, d |-> [k \in {0} |-> SoloRow]]}
    \cup {[w |-> 40, h |-> 20, cs |-> 10, n |-> Len(p), d |-> [k \in 0 .. (Len(p) - 1) |-> p[k + 1]]] :
              p \in TickPopulations}

\* steering in batches of any range, integration of the whole range
Steer == \E a \in 0 .. capacity, b \in 0 .. capacity : a < b /\ process_movement_batch(a, b, 1)
IntegrateAll == integrate_physics_batch(0, count, 1)

\* the passes of a tick in any order and chunking, over terrain that is
\* traversable everywhere
InitTick ==
    /\ \E sc \in TickScenes : Loaded(sc.w, sc.h, sc.cs, sc.n, sc.d)
    /\ grid_width = width \div map_cell_size
    /\ grid_height = height \div map_cell_size
    /\ traversability = 0 .. (grid_width * grid_height - 1)
    /\ cache = <<>>
    /\ cache_generation = 0
NextTick == rebuild_spatial_hash \/ Steer \/ IntegrateAll \/ Collide
SpecTick == InitTick /\ [][NextTick]_vars

(* ------------------ inputs of the out-of-range specification ----------- *)
\* positions left of the world, beyond its far corner, and inside it
EdgeRows == {Row(p, 1) : p \in {<<-5, 5>>, <<55, 25>>, <<2, 5>>}}
\* query points inside the world, left of it, and beyond the far edge by more
\* and by less than the radius
EdgePts == {<<12, 5>>, <<-5, 5>>, <<60, 5>>, <<42, 15>>}

QueryEdge == \E p \in EdgePts, r \in {0, 5} : QueryNeighbors(p[1], p[2], r)
LimitedEdge == \E p \in EdgePts, acc \in AcceptSets :
                   ForEachNeighborLimited(p[1], p[2], 5, MaxLimit, acc)

InitEdge ==
    /\ \E n \in 0 .. MaxLoad : \E d \in [0 .. (n - 1) -> EdgeRows] : Loaded(40, 20, 10, n, d)
    /\ InitNoMap
NextEdge == rebuild_spatial_hash \/ QueryEdge \/ LimitedEdge
SpecEdge == InitEdge /\ [][NextEdge]_vars

(* ------------------------------ properties ----------------------------- *)
Live(i) == i < count /\ alive[i] # 0
InWorld(x, y) == 0 <= x /\ x < width /\ 0 <= y /\ y < height
Occurrences(seq, e) == Cardinality({k \in 1 .. Len(seq) : seq[k] = e})
DistSq(i, x, y) == (pos_x[i] - x) * (pos_x[i] - x) + (pos_y[i] - y) * (pos_y[i] - y)

\* C1: after rebuild, whatever the index held before, the bucket chains hold
\* every live entity of [0,count) exactly once, in the bucket of its cell, and
\* nothing else.
C1_RebuildExact ==
    op.name = "rebuild" =>
        \A i \in Entities : \A b \in Buckets :
            Occurrences(Chain(next, buckets[b]), i)
                = IF Live(i) /\ get_key(pos_x[i], pos_y[i]) = b THEN 1 ELSE 0
\* a rebuild over an index that held other links, with a live and a skipped entity
C1_Witness ==
    /\ op.name = "rebuild" /\ op.flag
    /\ \E i, j \in Entities : Live(i) /\ ~Live(j) /\ j < count

\* C2: rebuild then query_neighbors at a cell-aligned point of the world
\* returns every live entity within distance radius of the point.
C2_QuerySuperset ==
    (/\ op.name = "query" /\ Fresh
     /\ InWorld(op.x, op.y) /\ op.x % cell_size = 0 /\ op.y % cell_size = 0
     /\ \A i \in Entities : Live(i) => InWorld(pos_x[i], pos_y[i]))
    => \A i \in Entities :
           (Live(i) /\ DistSq(i, op.x, op.y) <= op.radius * op.radius)
               => Occurrences(out.results, i) >= 1
\* a query that has an entity within the radius in another cell than the point's
C2_Witness ==
    /\ op.name = "query" /\ Fresh
    /\ \E i \in Entities :
          /\ Live(i) /\ DistSq(i, op.x, op.y) <= op.radius * op.radius
          /\ get_key(pos_x[i], pos_y[i]) # get_key(op.x, op.y)
          /\ Occurrences(out.results, i) = 1

\* cell coordinates of the bucket an entity is linked in, and of the query point
CellX(i) == get_key(pos_x[i], pos_y[i]) % cols
CellY(i) == get_key(pos_x[i], pos_y[i]) \div cols
RingOf(i) == Max(Abs(CellX(i) - CastUsize(op.x, cell_size)),
                 Abs(CellY(i) - CastUsize(op.y, cell_size)))
LimitedDone == op.name = "limited" /\ Fresh /\ ~out.aborted
Accepted(seq) == Cardinality({k \in 1 .. Len(seq) : seq[k] \in op.accept})

\* C3 (as claimed): entities are offered to the predicate in order of
\* increasing distance from the query point.
C3_OfferedByDistance ==
    LimitedDone =>
        \A a, b \in 1 .. Len(out.results) :
            a < b => DistSq(out.results[a], op.x, op.y) <= DistSq(out.results[b], op.x, op.y)

\* C3 (amended): entities are offered in order of increasing ring, the
\* Chebyshev distance in cells between the entity's cell and the query point's
\* cell; entities of one cell are offered in the reverse of rebuild's insertion
\* order (highest index first), whatever their distance.
C3_OfferedByRing ==
    LimitedDone =>
        \A a, b \in 1 .. Len(out.results) :
            a < b => /\ RingOf(out.results[a]) <= RingOf(out.results[b])
                     /\ get_key(pos_x[out.results[a]], pos_y[out.results[a]])
                          = get_key(pos_x[out.results[b]], pos_y[out.results[b]])
                        => out.results[a] > out.results[b]
\* a budget exhausted on an entity of an outer ring after one of an inner ring
C3_Witness ==
    /\ LimitedDone /\ op.limit > 0 /\ out.ret = op.limit
    /\ Len(out.results) >= 2
    /\ RingOf(out.results[1]) < RingOf(out.results[Len(out.results)])

\* the cells of the grid that meet [x-radius, x+radius] x [y-radius, y+radius]
InBox(cx, cy) ==
    /\ cx * cell_size <= op.x + op.radius /\ (cx + 1) * cell_size > op.x - op.radius
    /\ cy * cell_size <= op.y + op.radius /\ (cy + 1) * cell_size > op.y - op.radius

\* C4: the scan stops exactly at the limit-th acceptance or when the bounding
\* box is exhausted: at most limit acceptances, no offer after the limit-th
\* acceptance, and with fewer than limit acceptances every entity of every cell
\* of the (clamped) box was offered exactly once.
C4_StopsAtLimitOrExhausted ==
    LimitedDone =>
        /\ out.ret <= op.limit
        /\ out.ret = Accepted(out.results)
        /\ \A k \in 1 .. Len(out.results) : Accepted(SubSeq(out.results, 1, k - 1)) < op.limit
        /\ out.ret < op.limit =>
              \A i \in Entities :
                  Occurrences(out.results, i)
                      = IF Live(i) /\ InBox(CellX(i), CellY(i)) THEN 1 ELSE 0

\* C5 (as claimed): a lookup returns the flag the grid stores for the cell the
\* wrapped coordinates discretize to, whatever was looked up before.
C5_LookupReturnsCellFlag ==
    op.name = "is_traversable" =>
        out.val = (CellIndex(op.x, op.y) \in traversability)

\* C6: after the grid is replaced, no lookup answers with a flag cached from
\* the old grid: every cached flag, and every answer, is the flag the current
\* grid stores for the cell it was read from.
C6_CacheInvalidated ==
    /\ \A k \in DOMAIN cache : cache[k].val = (cache[k].src \in traversability)
    /\ (op.name = "is_traversable" /\ out.src # -1)
           => out.val = (out.src \in traversability)
\* a lookup, after a replacement, of a cell whose cached flag the replacement
\* made stale
C6_Witness ==
    /\ op.name = "is_traversable"
    /\ cache_generation > 0
    /\ out.src \in hist.stale
    /\ out.src = CellIndex(op.x, op.y)

\* C7: update_traversability with a slice of another length than the grid's
\* changes neither the grid nor the cache nor the cache generation, and
\* raises no error.
C7_MismatchIsNoOp ==
    [][(op'.name = "update" /\ ~op'.flag)
          => /\ UNCHANGED <<traversability, cache, cache_generation>>
             /\ ~out'.aborted]_vars
\* a rejected update on a map whose cache holds entries
C7_Witness ==
    /\ op.name = "update" /\ ~op.flag
    /\ cache # <<>>

\* the flag the grid stores for the cell of the point (x, y), y up
Terrain(x, y) == CellIndex(x, map_world_height - y) \in traversability
\* the probes, in order, whose cell is traversable for an entity at (x, y)
OpenProbes(x, y) ==
    {k \in 1 .. Len(Angles) :
        CellIndex(ProbeX(k, x), ProbeFlippedY(k, y)) \in traversability}
FirstOf(S) == CHOOSE k \in S : \A j \in S : k <= j

\* C8: an entity whose direct, horizontal-only and vertical-only moves are all
\* blocked keeps its position; its velocity becomes the escape speed along the
\* first traversable probe of 0, 45, ..., 315 degrees, or -0.8 times the
\* original velocity when no probe is traversable.
C8_EscapeFirstProbe ==
    op.name = "collide" =>
        \A i \in Entities :
            LET cx == hist.pos_x[i]
                cy == hist.pos_y[i]
                nx == cx + hist.vel_x[i] * op.dt
                ny == cy + hist.vel_y[i] * op.dt
            IN  (i < op.end /\ ~Terrain(nx, ny) /\ ~Terrain(nx, cy) /\ ~Terrain(cx, ny))
                => /\ pos_x[i] = cx /\ pos_y[i] = cy
                   /\ IF OpenProbes(cx, cy) # {}
                      THEN <<vel_x[i], vel_y[i]>> = EscapeVel(FirstOf(OpenProbes(cx, cy)))
                      ELSE /\ vel_x[i] = TruncDiv(hist.vel_x[i] * (-8), 10)
                           /\ vel_y[i] = TruncDiv(hist.vel_y[i] * (-8), 10)

Processed(i) == op.name = "integrate" /\ ~out.aborted /\ op.start <= i /\ i < op.end

\* C9: after integrate_batch every processed entity's position is inside
\* [0, width) x [0, height), for any position before the pass and any velocity
\* with |v * dt| below the world extent on each axis.
C9_PositionInWorld ==
    \A i \in Entities :
        (/\ Processed(i)
         /\ Abs(hist.vel_x[i] * op.dt) < width /\ Abs(hist.vel_y[i] * op.dt) < height)
        => InWorld(pos_x[i], pos_y[i])

\* C10: after integrate_batch the speed of every processed entity is at most
\* speed * min(metabolism / 0.15, 1) of its own genes, up to one unit of the
\* integer grid, and a rescaled velocity points where it pointed before.
C10_SpeedCap ==
    \A i \in Entities :
        Processed(i) =>
            LET capNum == genes[i * GENES_PER_ENTITY]
                              * Min(genes[i * GENES_PER_ENTITY + 2], REF_METABOLISM)
                vx == vel_x[i]
                vy == vel_y[i]
                ox == hist.vel_x[i]
                oy == hist.vel_y[i]
            IN  /\ REF_METABOLISM * REF_METABOLISM * (vx * vx + vy * vy)
                       <= (capNum + REF_METABOLISM) * (capNum + REF_METABOLISM)
                /\ vx * ox >= 0 /\ vy * oy >= 0
                /\ Abs(vx * oy - vy * ox) <= Abs(ox) + Abs(oy)
\* a batch that starts after entity 0 and rescales a velocity to a non-zero cap
C10_Witness ==
    \E i \in Entities :
        /\ Processed(i) /\ op.start > 0
        /\ <<vel_x[i], vel_y[i]>> # <<hist.vel_x[i], hist.vel_y[i]>>
        /\ <<vel_x[i], vel_y[i]>> # <<0, 0>>

\* an entity slot of [0, count) whose alive flag is 0
Dead(i) == i < count /\ alive[i] = 0
SameAsBefore(i) ==
    /\ pos_x[i] = hist.pos_x[i] /\ pos_y[i] = hist.pos_y[i]
    /\ vel_x[i] = hist.vel_x[i] /\ vel_y[i] = hist.vel_y[i]

\* C11: every pass skips dead entities: rebuild links no dead entity in the
\* index, and the steering, integration and collision passes leave the
\* position and the velocity of every dead entity as they were.
C11_DeadSkipped ==
    /\ op.name = "rebuild" =>
           \A i \in Entities : \A b \in Buckets :
               Dead(i) => Occurrences(Chain(next, buckets[b]), i) = 0
    /\ op.name \in PassNames => \A i \in Entities : Dead(i) => SameAsBefore(i)

\* C12: when every entity of [0, count) was steered once, by batches in any
\* order on a fresh index and before any other pass, the velocities are those
\* of the single in-order pass over [0, count) from the velocities the phase
\* started with; so they are the same for every order and partition.
C12_OrderIndependent ==
    (/\ op.name = "steer" /\ hist.phase_clean
     /\ hist.passes = 0 /\ hist.collisions = 0
     /\ \A i \in Entities : i < count => hist.steered[i] = 1)
    => LET ref == SteerFrom(0, count, op.dt, FALSE,
                            [vel_x |-> hist.phase_vel_x, vel_y |-> hist.phase_vel_y,
                             aborted |-> FALSE])
       IN  vel_x = ref.vel_x /\ vel_y = ref.vel_y

\* the cell nearest to a coordinate: the cell of the coordinate, clamped to the grid
NearestCell(x, y) ==
    LET Floor(v) == IF v >= 0 THEN v \div cell_size ELSE -((-v + cell_size - 1) \div cell_size)
    IN  Min(Max(Floor(y), 0), rows - 1) * cols + Min(Max(Floor(x), 0), cols - 1)

\* C13: the index cannot fail: for coordinates inside and outside the world,
\* rebuild links every live entity in the nearest valid cell, and
\* query_neighbors and for_each_neighbor_limited complete without abort and
\* without arithmetic underflow.
C13_IndexCannotFail ==
    /\ op.name = "rebuild" =>
           \A i \in Entities :
               Live(i) => Occurrences(Chain(next, buckets[NearestCell(pos_x[i], pos_y[i])]), i) = 1
    /\ op.name \in {"query", "limited"} => ~out.aborted /\ ~op.flag

\* C14: world 1000 x 1000, cell size 50, all terrain traversable, one alive
\* entity at (500, 500) with velocity (10, 0) and a speed cap of at least 10:
\* after the integration pass and then the collision pass, both with dt = 1,
\* the entity is at (510, 500) with velocity (10, 0).
C14_TickAdvances ==
    (/\ op.name = "collide" /\ op.dt = 1
     /\ hist.prev.name = "integrate" /\ hist.prev.dt = 1 /\ ~hist.prev.aborted
     /\ hist.prev.start = 0 /\ hist.prev.end = count
     /\ width = 1000 /\ height = 1000 /\ cell_size = 50
     /\ traversability = 0 .. (GridLen - 1)
     /\ count = 1 /\ alive[0] = 1
     /\ hist.prev.pos_x[0] = 500 /\ hist.prev.pos_y[0] = 500
     /\ hist.prev.vel_x[0] = 10 /\ hist.prev.vel_y[0] = 0
     /\ get_gene(0, 0) * Min(get_gene(0, 2), REF_METABOLISM) >= 10 * REF_METABOLISM)
    => /\ pos_x[0] = 510 /\ pos_y[0] = 500
       /\ vel_x[0] = 10 /\ vel_y[0] = 0

\* C15: integrate_physics_batch completes for every start_idx and end_idx and
\* changes no entity outside [start_idx, min(end_idx, count)).
C15_IntegrateTotal ==
    op.name = "integrate" =>
        /\ ~out.aborted
        /\ \A i \in Entities : ~(op.start <= i /\ i < op.end) => SameAsBefore(i)

\* C16: in the collision pass a traversable direct candidate is taken with the
\* velocity unchanged; else a traversable horizontal-only move is taken with
\* y unchanged and the vertical velocity times -0.5; else a traversable
\* vertical-only move is taken with x unchanged and the horizontal velocity
\* times -0.5.
C16_AxisSlide ==
    op.name = "collide" =>
        \A i \in Entities :
            LET cx == hist.pos_x[i]
                cy == hist.pos_y[i]
                vx == hist.vel_x[i]
                vy == hist.vel_y[i]
                nx == cx + vx * op.dt
                ny == cy + vy * op.dt
            IN  i < op.end =>
                    IF Terrain(nx, ny)
                    THEN /\ pos_x[i] = nx /\ pos_y[i] = ny
                         /\ vel_x[i] = vx /\ vel_y[i] = vy
                    ELSE IF Terrain(nx, cy)
                    THEN /\ pos_x[i] = nx /\ pos_y[i] = cy
                         /\ vel_x[i] = vx /\ vel_y[i] = TruncDiv(vy * (-5), 10)
                    ELSE IF Terrain(cx, ny)
                    THEN /\ pos_x[i] = cx /\ pos_y[i] = ny
                         /\ vel_x[i] = TruncDiv(vx * (-5), 10) /\ vel_y[i] = vy
                    ELSE TRUE

====
